---- MODULE Spec2Model ----
(***************************************************************************)
(* Model of efflux's IO binding (src/io.rs): the Lifecycle trait and the   *)
(* run_lifecycle driver, which reads stdin through a BufReader split into  *)
(* byte lines, decodes each line as UTF-8 and fires the lifecycle hooks.   *)
(*                                                                         *)
(* The standard input is a finite sequence of events: a byte (0..255) or   *)
(* IoErr, a read() call of the underlying channel that fails with an       *)
(* error other than Interrupted (read_until retries Interrupted itself).   *)
(***************************************************************************)
EXTENDS Integers, Sequences, FiniteSets, TLC

\* ------------------------------------------------------------------ bounds
\* longest input stream (bytes and failed reads) that Init enumerates
MaxLen == 4
\* longest input stream of the fair specification
MaxLenFair == 3

\* --------------------------------------------------------- bytes and events
\* b'\n', the delimiter given to read_until
NL == 10
\* b'\r', popped together with the delimiter
CR == 13
\* an ASCII letter, 'a'
LetterA == 97
\* 0xC3 0xA9 is the two-byte UTF-8 encoding of U+00E9
Lead2 == 195
Cont == 169
\* a read() of stdin that fails (not a byte)
IoErr == 256

Alphabet == {LetterA, NL, CR, Lead2, Cont}
Events == Alphabet \cup {IoErr}

\* all event sequences of length at most n
Streams(n) == UNION {[1..k -> Events] : k \in 0..n}

Hooks == {"on_start", "on_entry", "on_end"}

VARIABLES
    input,      \* the whole standard input of the run (never changes)
    rest,       \* the part of the input the BufReader has not consumed yet
    locked,     \* stdin is locked by the driver
    ctx,        \* the job context (NoCtx before Context::new())
    overrides,  \* the hooks that the stage's impl of Lifecycle overrides
    stage,      \* the state of the stage (the lifecycle value, &mut self)
    pc,         \* the driver's position in run_lifecycle
    items,      \* history: the items the byte_lines iterator has yielded
    trace       \* history: the hook calls made, in order

vars == <<input, rest, locked, ctx, overrides, stage, pc, items, trace>>

\* the context before it is created, and the value Context::new() builds
NoCtx == -1
ContextNew == 0
\* The Context is opaque to the driver, which only creates it and hands it
\* to the hooks: it is either as Context::new() built it or changed.
CtxValues == {ContextNew, ContextNew + 1}
\* The stage is as opaque as the context: it is as the caller built it
\* (StageGiven) or changed by one of its own hooks.
StageGiven == 0
StageValues == {StageGiven, StageGiven + 1}

\* ------------------------------------------------------------ read_until
\* BufRead::read_until(b'\n', buf) from position i of evs with buf read so
\* far: bytes are appended up to and including the delimiter; a failing
\* read returns the error (the bytes consumed so far stay consumed);
\* end of input returns what was read.  n is the number of events consumed.
RECURSIVE ReadUntilFrom(_, _, _)
ReadUntilFrom(evs, i, buf) ==
    IF i > Len(evs) THEN [ok |-> TRUE, buf |-> buf, n |-> Len(evs)]
    ELSE IF evs[i] = IoErr THEN [ok |-> FALSE, buf |-> buf, n |-> i]
    ELSE IF evs[i] = NL THEN [ok |-> TRUE, buf |-> Append(buf, NL), n |-> i]
    ELSE ReadUntilFrom(evs, i + 1, Append(buf, evs[i]))

ReadUntil(evs) == ReadUntilFrom(evs, 1, << >>)

\* faulty variant: the delimiter is left on the line
StripDelimKeep(buf) == buf

\* faulty variant: the last byte is popped whether or not it is the delimiter
StripDelimAlways(buf) ==
    IF Len(buf) > 0 THEN SubSeq(buf, 1, Len(buf) - 1) ELSE buf

\* ByteLines::next strips the delimiter "\n" and a "\r" in front of it
StripDelim(buf) ==
    LET n == Len(buf) IN
    IF n > 0 /\ buf[n] = NL
    THEN IF n - 1 > 0 /\ buf[n - 1] = CR
         THEN SubSeq(buf, 1, n - 2)
         ELSE SubSeq(buf, 1, n - 1)
    ELSE buf

\* faulty variant: a failed read ends the iteration
ByteLinesNextStopOnErr(evs) ==
    LET r == ReadUntil(evs) IN
    IF ~r.ok \/ Len(r.buf) = 0 THEN [kind |-> "none", bytes |-> << >>, n |-> 0]
    ELSE [kind |-> "ok", bytes |-> StripDelim(r.buf), n |-> r.n]

\* ByteLines::next on the unread input evs: the buffer is cleared, then
\* read_until fills it.  kind "none" is the end of the iteration.
ByteLinesNext(evs) ==
    LET r == ReadUntil(evs) IN
    IF ~r.ok THEN [kind |-> "err", bytes |-> << >>, n |-> r.n]
    ELSE IF Len(r.buf) = 0 THEN [kind |-> "none", bytes |-> << >>, n |-> r.n]
    ELSE [kind |-> "ok", bytes |-> StripDelim(r.buf), n |-> r.n]

\* ------------------------------------------------------ String::from_utf8
InRange(b, lo, hi) == lo <= b /\ b <= hi
IsCont(s, i) == i <= Len(s) /\ InRange(s[i], 128, 191)

\* UTF-8 validation of s from position i (the well-formed byte sequences)
RECURSIVE Utf8From(_, _)
Utf8From(s, i) ==
    IF i > Len(s) THEN TRUE
    ELSE LET b == s[i] IN
         IF b < 128 THEN Utf8From(s, i + 1)
         ELSE IF InRange(b, 194, 223)
              THEN IsCont(s, i + 1) /\ Utf8From(s, i + 2)
         ELSE IF InRange(b, 224, 239)
              THEN /\ IsCont(s, i + 1) /\ IsCont(s, i + 2)
                   /\ (b = 224 => s[i + 1] >= 160)
                   /\ (b = 237 => s[i + 1] <= 159)
                   /\ Utf8From(s, i + 3)
         ELSE IF InRange(b, 240, 244)
              THEN /\ IsCont(s, i + 1) /\ IsCont(s, i + 2) /\ IsCont(s, i + 3)
                   /\ (b = 240 => s[i + 1] >= 144)
                   /\ (b = 244 => s[i + 1] <= 143)
                   /\ Utf8From(s, i + 4)
         ELSE FALSE

\* faulty variant: the bytes are taken as text without validation
FromUtf8Unchecked(bytes) == TRUE

\* String::from_utf8(bytes) is Ok (holding the same bytes) iff bytes are UTF-8
FromUtf8Ok(bytes) == Utf8From(bytes, 1)

\* ------------------------------------------------------------- the hooks
\* faulty variant: the default hooks are not no-ops
HookResultsAny(hook, c) == CtxValues

\* A hook call: a hook the stage does not override is the trait's no-op;
\* an overridden hook may leave any value in the context.
HookResults(hook, c) ==
    IF hook \in overrides THEN CtxValues ELSE {c}

\* What a hook call may leave in the stage itself (&mut self).
StageResults(hook, st) ==
    IF hook \in overrides THEN StageValues ELSE {st}

Call(hook, arg, cin, cout) ==
    [hook |-> hook, arg |-> arg, ctx_in |-> cin, ctx_out |-> cout]

\* ------------------------------------------------------------ the driver
InitWith(n) ==
    /\ input \in Streams(n)
    /\ rest = input
    /\ locked = FALSE
    /\ ctx = NoCtx
    /\ overrides \in SUBSET Hooks
    /\ stage = StageGiven
    /\ pc = "setup"
    /\ items = << >>
    /\ trace = << >>

Init == InitWith(MaxLen)

\* faulty variant: the job context is not created before the hooks fire
SetupNoContext ==
    /\ pc = "setup"
    /\ locked' = TRUE
    /\ pc' = "start"
    /\ UNCHANGED <<input, rest, ctx, overrides, stage, items, trace>>

\* lock stdin and create the job context
Setup ==
    /\ pc = "setup"
    /\ locked' = TRUE
    /\ ctx' = ContextNew
    /\ pc' = "start"
    /\ UNCHANGED <<input, rest, overrides, stage, items, trace>>

\* faulty variant: the startup hook is not fired
OnStartSkipped ==
    /\ pc = "start"
    /\ pc' = "loop"
    /\ UNCHANGED <<input, rest, locked, ctx, overrides, stage, items, trace>>

\* lifecycle.on_start(&mut ctx)
OnStart ==
    /\ pc = "start"
    /\ \E c \in HookResults("on_start", ctx), st \in StageResults("on_start", stage) :
          /\ stage' = st
          /\ ctx' = c
          /\ trace' = Append(trace, Call("on_start", << >>, ctx, c))
    /\ pc' = "loop"
    /\ UNCHANGED <<input, rest, locked, overrides, items>>

\* faulty variant: every entry is given a context of its own
DeliverEntryFreshCtx ==
    /\ pc = "loop"
    /\ LET it == ByteLinesNext(rest) IN
          /\ it.kind = "ok"
          /\ FromUtf8Ok(it.bytes)
          /\ rest' = SubSeq(rest, it.n + 1, Len(rest))
          /\ items' = Append(items, [kind |-> it.kind, bytes |-> it.bytes])
          /\ \E c \in HookResults("on_entry", ContextNew), st \in StageResults("on_entry", stage) :
                /\ stage' = st
                /\ ctx' = c
                /\ trace' = Append(trace, Call("on_entry", it.bytes, ContextNew, c))
    /\ UNCHANGED <<input, locked, overrides, pc>>

\* faulty variant: the line is read but its hook call is left for later
DeliverEntryDeferred ==
    /\ pc = "loop"
    /\ LET it == ByteLinesNext(rest) IN
          /\ it.kind = "ok"
          /\ FromUtf8Ok(it.bytes)
          /\ rest' = SubSeq(rest, it.n + 1, Len(rest))
          /\ items' = Append(items, [kind |-> it.kind, bytes |-> it.bytes])
    /\ UNCHANGED <<input, locked, ctx, overrides, stage, pc, trace>>

\* faulty variant: a hook that changes the context stops the reading
DeliverEntryStopFlag ==
    /\ pc = "loop"
    /\ LET it == ByteLinesNext(rest) IN
          /\ it.kind = "ok"
          /\ FromUtf8Ok(it.bytes)
          /\ items' = Append(items, [kind |-> it.kind, bytes |-> it.bytes])
          /\ \E c \in HookResults("on_entry", ctx), st \in StageResults("on_entry", stage) :
                /\ stage' = st
                /\ ctx' = c
                /\ trace' = Append(trace, Call("on_entry", it.bytes, ctx, c))
                /\ rest' = IF c # ctx THEN << >> ELSE SubSeq(rest, it.n + 1, Len(rest))
    /\ UNCHANGED <<input, locked, overrides, pc>>

\* faulty variant: whether a valid line reaches the hook is left to chance
DeliverEntryMaybe ==
    /\ pc = "loop"
    /\ LET it == ByteLinesNext(rest) IN
          /\ it.kind = "ok"
          /\ FromUtf8Ok(it.bytes)
          /\ rest' = SubSeq(rest, it.n + 1, Len(rest))
          /\ items' = Append(items, [kind |-> it.kind, bytes |-> it.bytes])
          /\ \/ UNCHANGED <<ctx, stage, trace>>
             \/ \E c \in HookResults("on_entry", ctx), st \in StageResults("on_entry", stage) :
                   /\ stage' = st
                   /\ ctx' = c
                   /\ trace' = Append(trace, Call("on_entry", it.bytes, ctx, c))
    /\ UNCHANGED <<input, locked, overrides, pc>>

\* faulty variant: the hook is called twice for a line
DeliverEntryTwice ==
    /\ pc = "loop"
    /\ LET it == ByteLinesNext(rest) IN
          /\ it.kind = "ok"
          /\ FromUtf8Ok(it.bytes)
          /\ rest' = SubSeq(rest, it.n + 1, Len(rest))
          /\ items' = Append(items, [kind |-> it.kind, bytes |-> it.bytes])
          /\ \E c \in HookResults("on_entry", ctx), st \in StageResults("on_entry", stage) :
                /\ stage' = st
                /\ ctx' = c
                /\ trace' = trace \o << Call("on_entry", it.bytes, ctx, c),
                                       Call("on_entry", it.bytes, c, c) >>
    /\ UNCHANGED <<input, locked, overrides, pc>>

\* faulty variant: an empty line is passed over as if it were malformed
DeliverEntrySkipEmpty ==
    /\ pc = "loop"
    /\ LET it == ByteLinesNext(rest) IN
          /\ it.kind = "ok"
          /\ FromUtf8Ok(it.bytes)
          /\ rest' = SubSeq(rest, it.n + 1, Len(rest))
          /\ items' = Append(items, [kind |-> it.kind, bytes |-> it.bytes])
          /\ IF it.bytes = << >>
             THEN UNCHANGED <<ctx, stage, trace>>
             ELSE \E c \in HookResults("on_entry", ctx), st \in StageResults("on_entry", stage) :
                     /\ stage' = st
                     /\ ctx' = c
                     /\ trace' = Append(trace, Call("on_entry", it.bytes, ctx, c))
    /\ UNCHANGED <<input, locked, overrides, pc>>

\* one iteration of the for loop whose line is valid UTF-8
DeliverEntry ==
    /\ pc = "loop"
    /\ LET it == ByteLinesNext(rest) IN
          /\ it.kind = "ok"
          /\ FromUtf8Ok(it.bytes)
          /\ rest' = SubSeq(rest, it.n + 1, Len(rest))
          /\ items' = Append(items, [kind |-> it.kind, bytes |-> it.bytes])
          /\ \E c \in HookResults("on_entry", ctx), st \in StageResults("on_entry", stage) :
                /\ stage' = st
                /\ ctx' = c
                /\ trace' = Append(trace, Call("on_entry", it.bytes, ctx, c))
    /\ UNCHANGED <<input, locked, overrides, pc>>

\* faulty variant: a line that is not valid UTF-8 ends the reading
SkipInvalidAbort ==
    /\ pc = "loop"
    /\ LET it == ByteLinesNext(rest) IN
          /\ it.kind = "ok"
          /\ ~FromUtf8Ok(it.bytes)
          /\ rest' = << >>
          /\ items' = Append(items, [kind |-> it.kind, bytes |-> it.bytes])
    /\ UNCHANGED <<input, locked, ctx, overrides, stage, pc, trace>>

\* faulty variant: a line that is not valid UTF-8 is handed over as it is
SkipInvalidLossy ==
    /\ pc = "loop"
    /\ LET it == ByteLinesNext(rest) IN
          /\ it.kind = "ok"
          /\ ~FromUtf8Ok(it.bytes)
          /\ rest' = SubSeq(rest, it.n + 1, Len(rest))
          /\ items' = Append(items, [kind |-> it.kind, bytes |-> it.bytes])
          /\ \E c \in HookResults("on_entry", ctx), st \in StageResults("on_entry", stage) :
                /\ stage' = st
                /\ ctx' = c
                /\ trace' = Append(trace, Call("on_entry", it.bytes, ctx, c))
    /\ UNCHANGED <<input, locked, overrides, pc>>

\* one iteration whose line is not valid UTF-8: nothing is done with it
SkipInvalid ==
    /\ pc = "loop"
    /\ LET it == ByteLinesNext(rest) IN
          /\ it.kind = "ok"
          /\ ~FromUtf8Ok(it.bytes)
          /\ rest' = SubSeq(rest, it.n + 1, Len(rest))
          /\ items' = Append(items, [kind |-> it.kind, bytes |-> it.bytes])
    /\ UNCHANGED <<input, locked, ctx, overrides, stage, pc, trace>>

\* faulty variant: a failed read ends the reading
SkipReadErrorAbort ==
    /\ pc = "loop"
    /\ LET it == ByteLinesNext(rest) IN
          /\ it.kind = "err"
          /\ rest' = << >>
          /\ items' = Append(items, [kind |-> it.kind, bytes |-> it.bytes])
    /\ UNCHANGED <<input, locked, ctx, overrides, stage, pc, trace>>

\* one iteration whose item is an Err: nothing is done with it
SkipReadError ==
    /\ pc = "loop"
    /\ LET it == ByteLinesNext(rest) IN
          /\ it.kind = "err"
          /\ rest' = SubSeq(rest, it.n + 1, Len(rest))
          /\ items' = Append(items, [kind |-> it.kind, bytes |-> it.bytes])
    /\ UNCHANGED <<input, locked, ctx, overrides, stage, pc, trace>>

\* faulty variant: the finalization hook fires without waiting for the end of input
OnEndEarly ==
    /\ pc = "loop"
    /\ \E c \in HookResults("on_end", ctx), st \in StageResults("on_end", stage) :
          /\ stage' = st
          /\ ctx' = c
          /\ trace' = Append(trace, Call("on_end", << >>, ctx, c))
    /\ pc' = "done"
    /\ UNCHANGED <<input, rest, locked, overrides, items>>

\* faulty variant: the finalization hook fires only when some line was read
OnEndIfAny ==
    /\ pc = "loop"
    /\ LET it == ByteLinesNext(rest) IN
          /\ it.kind = "none"
          /\ rest' = SubSeq(rest, it.n + 1, Len(rest))
    /\ IF items = << >>
       THEN UNCHANGED <<ctx, stage, trace>>
       ELSE \E c \in HookResults("on_end", ctx), st \in StageResults("on_end", stage) :
               /\ stage' = st
               /\ ctx' = c
               /\ trace' = Append(trace, Call("on_end", << >>, ctx, c))
    /\ pc' = "done"
    /\ UNCHANGED <<input, locked, overrides, items>>

\* the iterator is finished: lifecycle.on_end(&mut ctx), then return
OnEnd ==
    /\ pc = "loop"
    /\ LET it == ByteLinesNext(rest) IN
          /\ it.kind = "none"
          /\ rest' = SubSeq(rest, it.n + 1, Len(rest))
    /\ \E c \in HookResults("on_end", ctx), st \in StageResults("on_end", stage) :
          /\ stage' = st
          /\ ctx' = c
          /\ trace' = Append(trace, Call("on_end", << >>, ctx, c))
    /\ pc' = "done"
    /\ UNCHANGED <<input, locked, overrides, items>>

Next ==
    \/ Setup
    \/ OnStart
    \/ DeliverEntry
    \/ SkipInvalid
    \/ SkipReadError
    \/ OnEnd

Spec == Init /\ [][Next]_vars

\* The driver is a sequential program that keeps running: every step that
\* can be taken is eventually taken.  Streams are at most MaxLenFair long.
InitFair == InitWith(MaxLenFair)
FairSpec == InitFair /\ [][Next]_vars /\ WF_vars(Next)

\* ------------------------------------------------- vocabulary of the claims
IsEntry(c) == c.hook = "on_entry"
Count(h) == Cardinality({i \in 1..Len(trace) : trace[i].hook = h})
HookSeq == [i \in 1..Len(trace) |-> trace[i].hook]
\* the texts given to on_entry, in call order
EntryArgs ==
    LET es == SelectSeq(trace, IsEntry) IN [i \in 1..Len(es) |-> es[i].arg]

NoReadError(s) == \A i \in 1..Len(s) : s[i] # IoErr
CountOf(s, e) == Cardinality({i \in 1..Len(s) : s[i] = e})

\* Valid text over the alphabet of the model, stated on the bytes: the lead
\* byte 0xC3 is always followed by the continuation byte 0xA9, which occurs
\* nowhere else; every other byte is ASCII.
WellFormed(s) ==
    \A i \in 1..Len(s) :
        /\ s[i] \in {LetterA, NL, CR, Lead2, Cont}
        /\ (s[i] = Lead2 => i < Len(s) /\ s[i + 1] = Cont)
        /\ (s[i] = Cont => i > 1 /\ s[i - 1] = Lead2)

\* The lines of an error-free byte stream s, by the positions of its line
\* terminators: line k lies between the (k-1)-th and the k-th "\n"; what
\* follows the last "\n", if not empty, is the final unterminated line.  The
\* terminator of a line is "\n" or "\r\n".
NLPos(s) == {i \in 1..Len(s) : s[i] = NL}
KthNL(s, k) == CHOOSE i \in NLPos(s) : Cardinality({j \in NLPos(s) : j <= i}) = k
LastNL(s) == IF NLPos(s) = {} THEN 0 ELSE CHOOSE i \in NLPos(s) : \A j \in NLPos(s) : j <= i
NumLines(s) == Cardinality(NLPos(s)) + (IF LastNL(s) < Len(s) THEN 1 ELSE 0)
RawLine(s, k) ==
    LET a == IF k = 1 THEN 1 ELSE KthNL(s, k - 1) + 1
        b == IF k <= Cardinality(NLPos(s)) THEN KthNL(s, k) - 1 ELSE Len(s)
    IN  SubSeq(s, a, b)
LineContent(s, k) ==
    LET raw == RawLine(s, k) IN
    IF k <= Cardinality(NLPos(s)) /\ Len(raw) > 0 /\ raw[Len(raw)] = CR
    THEN SubSeq(raw, 1, Len(raw) - 1)
    ELSE raw
RefLines(s) == [k \in 1..NumLines(s) |-> LineContent(s, k)]
ValidLines(s) == SelectSeq(RefLines(s), WellFormed)
AllLinesValid(s) == \A k \in 1..NumLines(s) : WellFormed(LineContent(s, k))

IsSuffix(a, b) ==
    Len(a) <= Len(b) /\ \A i \in 1..Len(a) : a[i] = b[Len(b) - Len(a) + i]
IsPrefix(a, b) ==
    Len(a) <= Len(b) /\ \A i \in 1..Len(a) : a[i] = b[i]

\* ------------------------------------------------------------------ claims

\* C1: in every run, whatever the input (also with no valid line), on_start
\* is called exactly once, and it is the first hook call: before the first
\* on_entry and before on_end.
C1_StartOnceFirst ==
    /\ Count("on_start") = (IF pc \in {"loop", "done"} THEN 1 ELSE 0)
    /\ (trace # << >> => trace[1].hook = "on_start")

C1_Witness ==
    /\ pc = "done"
    /\ Count("on_entry") = 0
    /\ Len(items) > 1
    /\ Count("on_start") = 1

\* C2: on_end is called exactly once per run, when the run completes; it is
\* called only with the input exhausted, it is the last hook call (after the
\* last on_entry), and no on_start or on_entry follows it.
C2_EndOnceLast ==
    /\ Count("on_end") = (IF pc = "done" THEN 1 ELSE 0)
    /\ \A i \in 1..Len(trace) :
          trace[i].hook = "on_end" => i = Len(trace) /\ i > 1 /\ rest = << >>

C2_Witness ==
    /\ pc = "done"
    /\ Len(trace) >= 4
    /\ trace[Len(trace)].hook = "on_end"
    /\ trace[Len(trace) - 1].hook = "on_entry"

\* C3: for an input of N lines that are all read without error and are all
\* valid text, on_entry is called exactly N times and the i-th call is given
\* the content of the i-th line; during the run the calls made so far are
\* the first lines, in order.
C3_AllValidDelivered ==
    (NoReadError(input) /\ AllLinesValid(input)) =>
        /\ IsPrefix(EntryArgs, RefLines(input))
        /\ (pc = "done" => EntryArgs = RefLines(input))

C3_Witness ==
    /\ pc = "done"
    /\ NoReadError(input) /\ AllLinesValid(input)
    /\ NumLines(input) = 2
    /\ LineContent(input, 1) # LineContent(input, 2)
    /\ Len(EntryArgs) = 2

\* C4: for an error-free input mixing valid and invalid lines, the texts
\* given to on_entry are exactly the valid lines, in their original order:
\* an invalid line gives no call, and valid lines after it are delivered.
C4_ValidSubsequence ==
    NoReadError(input) =>
        /\ IsPrefix(EntryArgs, ValidLines(input))
        /\ (pc = "done" => EntryArgs = ValidLines(input))

C4_Witness ==
    /\ pc = "done"
    /\ NoReadError(input)
    /\ NumLines(input) = 3
    /\ WellFormed(LineContent(input, 1))
    /\ ~WellFormed(LineContent(input, 2))
    /\ WellFormed(LineContent(input, 3))
    /\ Len(EntryArgs) = 2

\* the part of the input after its last failed read
AfterLastErr(s) ==
    LET E == {i \in 1..Len(s) : s[i] = IoErr}
        m == IF E = {} THEN 0 ELSE CHOOSE i \in E : \A j \in E : j <= i
    IN  SubSeq(s, m + 1, Len(s))
IsErrItem(it) == it.kind = "err"
IsValidItem(it) == it.kind = "ok" /\ WellFormed(it.bytes)
IsInvalidItem(it) == it.kind = "ok" /\ ~WellFormed(it.bytes)
ValidItemBytes ==
    LET vs == SelectSeq(items, IsValidItem) IN [i \in 1..Len(vs) |-> vs[i].bytes]

\* C5: when reads fail, an item that is a read error gives no on_entry call
\* (the calls are exactly the valid items read); the run is not aborted:
\* every failed read is passed over and the reading goes on, so that at the
\* end of the run each failed read of the input has been met once, every
\* valid line after the last failure has been delivered, and on_end has
\* been called last.
C5_ReadErrorSkipped ==
    ~NoReadError(input) =>
        /\ EntryArgs = ValidItemBytes
        /\ (pc = "done" =>
              /\ Len(SelectSeq(items, IsErrItem)) = CountOf(input, IoErr)
              /\ IsSuffix(ValidLines(AfterLastErr(input)), EntryArgs)
              /\ trace[Len(trace)].hook = "on_end")

C5_Witness ==
    /\ pc = "done"
    /\ Len(input) = 4
    /\ input[1] # IoErr /\ input[2] = IoErr
    /\ Len(items) = 2
    /\ items[1].kind = "err"
    /\ Len(EntryArgs) = 1
    /\ EntryArgs[1] # << >>
    /\ trace[Len(trace)].hook = "on_end"

\* C6: the loop ends only when the input is exhausted, and every run over a
\* finite input (valid lines, undecodable lines and failed reads in any
\* mix) eventually calls on_end and returns.
C6_Terminates == <>(pc = "done" /\ rest = << >> /\ Count("on_end") = 1)

C6_Witness ==
    /\ pc = "done"
    /\ \E i \in 1..Len(items) : IsErrItem(items[i])
    /\ \E i \in 1..Len(items) : IsInvalidItem(items[i])
    /\ Count("on_entry") >= 1

\* C7: one context is created per run and threaded through the hook calls:
\* the first call is given the context as created, every later call is given
\* the context as the previous call left it, and the driver's context is
\* always the one the last call left (skipped lines do not touch it).
C7_SameContext ==
    /\ ctx = (IF trace # << >> THEN trace[Len(trace)].ctx_out
              ELSE IF pc = "setup" THEN NoCtx ELSE ContextNew)
    /\ \A i \in 1..Len(trace) :
          trace[i].ctx_in = (IF i = 1 THEN ContextNew ELSE trace[i - 1].ctx_out)

C7_Witness ==
    /\ pc = "done"
    /\ Len(trace) >= 4
    /\ Len(items) > Count("on_entry")
    /\ trace[1].ctx_out # ContextNew
    /\ trace[2].ctx_in # ContextNew /\ trace[2].ctx_out = ContextNew
    /\ trace[3].ctx_in = ContextNew /\ trace[3].ctx_out # ContextNew
    /\ trace[Len(trace)].ctx_in # ContextNew

\* C8: every text given to on_entry is valid text and is a whole item of the
\* line iterator; an item whose bytes are not valid text is never given.
C8_OnlyValidText ==
    \A i \in 1..Len(trace) :
        IsEntry(trace[i]) =>
            /\ WellFormed(trace[i].arg)
            /\ \E j \in 1..Len(items) :
                  items[j].kind = "ok" /\ items[j].bytes = trace[i].arg

C8_Witness ==
    /\ pc = "done"
    /\ \E i \in 1..Len(items) : IsInvalidItem(items[i]) /\ Len(items[i].bytes) >= 2
    /\ Count("on_entry") >= 1

\* C9: on the empty input the run makes no on_entry call, and its hook calls
\* are exactly on_start followed by on_end.
C9_EmptyInput ==
    input = << >> =>
        /\ Count("on_entry") = 0
        /\ (pc = "done" => HookSeq = <<"on_start", "on_end">>)

C9_Witness ==
    /\ input = << >>
    /\ pc = "done"
    /\ Len(trace) = 2

\* C10: at the end of a run over an error-free input, the iterator has
\* yielded one item per "\n" plus one for a non-empty unterminated rest and
\* none for an empty one; a valid unterminated final line is given to the
\* last on_entry call, once, after the calls for the earlier lines; an input
\* that ends with "\n" gets no call beyond those of its terminated lines.
FinalPart(s) == SubSeq(s, LastNL(s) + 1, Len(s))
C10_FinalLine ==
    (pc = "done" /\ NoReadError(input)) =>
        /\ Len(items) = CountOf(input, NL) + (IF FinalPart(input) # << >> THEN 1 ELSE 0)
        /\ (FinalPart(input) # << >> /\ WellFormed(FinalPart(input))) =>
              /\ IsEntry(trace[Len(trace) - 1])
              /\ trace[Len(trace) - 1].arg = FinalPart(input)
              /\ Len(EntryArgs) =
                    Len(ValidLines(SubSeq(input, 1, LastNL(input)))) + 1
        /\ (FinalPart(input) = << >>) => Len(EntryArgs) <= CountOf(input, NL)

C10_Witness ==
    /\ pc = "done"
    /\ NoReadError(input)
    /\ CountOf(input, NL) = 1
    /\ Len(FinalPart(input)) = 2
    /\ Len(EntryArgs) = 2
    /\ EntryArgs[2] = FinalPart(input)

\* The items the line iterator yields over the input s, by the positions of
\* the failed reads: before a failed read the terminated lines are yielded,
\* what was read of an unterminated line is lost and the failure is yielded;
\* after the last failed read the lines of the rest are yielded.
OkItems(ls) == [i \in 1..Len(ls) |-> [kind |-> "ok", bytes |-> ls[i]]]
FirstErr(s) == CHOOSE i \in 1..Len(s) : s[i] = IoErr /\ \A j \in 1..(i - 1) : s[j] # IoErr
RECURSIVE RefItems(_)
RefItems(s) ==
    IF NoReadError(s) THEN OkItems(RefLines(s))
    ELSE LET e == FirstErr(s)
             seg == SubSeq(s, 1, e - 1)
         IN  OkItems(RefLines(SubSeq(seg, 1, LastNL(seg))))
                \o <<[kind |-> "err", bytes |-> << >>]>>
                \o RefItems(SubSeq(s, e + 1, Len(s)))

\* C11: a call of a hook that the stage does not override changes neither
\* the context nor the stage; with a stage that overrides no hook the context
\* stays as created and the stage as given through the whole run, and the
\* run still reads the input to its end and returns.
C11_DefaultStage ==
    /\ [][(Len(trace') > Len(trace) /\ trace'[Len(trace')].hook \notin overrides)
            => (ctx' = ctx /\ stage' = stage)]_vars
    /\ [](overrides = {} => (stage = StageGiven /\ ctx \in {NoCtx, ContextNew}))
    /\ ((overrides = {}) ~> (pc = "done" /\ rest = << >> /\ items = RefItems(input)))

C11_Witness ==
    /\ overrides = {}
    /\ pc = "done"
    /\ Len(trace) = 4
    /\ Len(items) = 3
    /\ ctx = ContextNew /\ stage = StageGiven

\* C12: the driver does one thing at a time: a step reads at most one line
\* and makes at most one hook call; a line is read only after on_start has
\* returned and after the hook call of every line read before it has
\* returned; an on_entry call is for the line read in the same iteration.
C12_HooksSequential ==
    [][/\ Len(trace') <= Len(trace) + 1
       /\ Len(items') <= Len(items) + 1
       /\ (Len(items') > Len(items)) =>
             /\ Count("on_start") = 1 /\ Count("on_end") = 0
             /\ Len(EntryArgs) = Len(SelectSeq(items, IsValidItem))
             /\ ctx = trace[Len(trace)].ctx_out
       /\ (Len(trace') > Len(trace) /\ IsEntry(trace'[Len(trace')])) =>
             /\ Len(items') = Len(items) + 1
             /\ items'[Len(items')].kind = "ok"
             /\ items'[Len(items')].bytes = trace'[Len(trace')].arg]_vars

C12_Witness ==
    /\ pc = "loop"
    /\ Len(items) = 3
    /\ Count("on_entry") = 2
    /\ rest # << >>

\* C13: what the hooks do to the context and to the stage has no effect on
\* the reading: the items read are always the first items of the input, and
\* at the end of the run all of them have been read, the input is exhausted
\* and every valid one has been delivered.
C13_HooksCannotAlterLoop ==
    [](LET ref == RefItems(input) IN
       IF pc = "done"
       THEN /\ items = ref
            /\ rest = << >>
            /\ Len(EntryArgs) = Len(SelectSeq(ref, IsValidItem))
       ELSE IsPrefix(items, ref))

C13_Witness ==
    /\ pc = "done"
    /\ overrides = Hooks
    /\ Len(items) = 3
    /\ Count("on_entry") = 2
    /\ trace[1].ctx_out # trace[1].ctx_in
    /\ trace[2].ctx_out # trace[2].ctx_in
    /\ trace[3].ctx_out # trace[3].ctx_in
    /\ stage # StageGiven

\* the hook calls made, as hook and text argument
CallSeq == [i \in 1..Len(trace) |-> <<trace[i].hook, trace[i].arg>>]
\* the hook calls of a whole run over the input s
ExpectedCalls(s) ==
    LET vs == SelectSeq(RefItems(s), IsValidItem) IN
    <<(<<"on_start", << >>>>)>>
        \o [i \in 1..Len(vs) |-> <<"on_entry", vs[i].bytes>>]
        \o <<(<<"on_end", << >>>>)>>

\* C14: the hook calls of a run and their text arguments are a function of
\* the input alone, in the order of the input: every run over the same input
\* makes the same calls, and during a run the calls made are the first of
\* them.
C14_CallsDeterminedByInput ==
    [](LET exp == ExpectedCalls(input) IN
       IF pc = "done" THEN CallSeq = exp
       ELSE IsPrefix(CallSeq, exp) /\ Len(CallSeq) < Len(exp))

C14_Witness ==
    /\ pc = "done"
    /\ ~NoReadError(input)
    /\ Len(items) = 3
    /\ Len(EntryArgs) = 2
    /\ EntryArgs[1] # EntryArgs[2]

\* C15: the context is created in the step that locks stdin, and the next
\* thing the driver does is the on_start call: while there is no context
\* nothing has been read and no hook called, no hook is ever given a missing
\* context, and nothing is read before on_start has returned.
C15_ContextBeforeStart ==
    [](/\ (ctx = NoCtx) <=> (pc = "setup")
       /\ (ctx # NoCtx) => locked
       /\ (pc = "setup") => (trace = << >> /\ items = << >> /\ rest = input)
       /\ (pc = "start") =>
             (ctx = ContextNew /\ trace = << >> /\ items = << >> /\ rest = input)
       /\ (items # << >> \/ rest # input) => Count("on_start") = 1
       /\ \A i \in 1..Len(trace) : trace[i].ctx_in # NoCtx)

C15_Witness ==
    /\ pc = "start"
    /\ locked
    /\ ctx = ContextNew
    /\ trace = << >>
    /\ Len(rest) = 4

\* C16: an iteration that drops its line (the read failed, or the bytes are
\* not valid text) calls no hook and leaves the context and the stage as the
\* previous hook call left them.
C16_SkipIsNoOp ==
    [][(Len(items') > Len(items) /\ ~IsValidItem(items'[Len(items')]))
          => (trace' = trace /\ ctx' = ctx /\ stage' = stage /\ pc' = pc)]_vars

C16_Witness ==
    /\ pc = "done"
    /\ Len(items) = 3
    /\ IsValidItem(items[1])
    /\ ~IsValidItem(items[2])
    /\ IsValidItem(items[3])
    /\ trace[2].ctx_out # ContextNew
    /\ trace[3].ctx_in = trace[2].ctx_out
    /\ stage # StageGiven

\* C17: every item the source yields is handled once: it is delivered by one
\* on_entry call or skipped (failed read, or not valid text), never both and
\* never twice; at the end of the run the calls and the skipped items add up
\* to the items of the input.
NumSkipped == Len(SelectSeq(items, IsErrItem)) + Len(SelectSeq(items, IsInvalidItem))
C17_EachLineOnce ==
    [](/\ Len(EntryArgs) + NumSkipped = Len(items)
       /\ Len(EntryArgs) = Len(SelectSeq(items, IsValidItem))
       /\ (pc = "done" => Len(EntryArgs) + NumSkipped = Len(RefItems(input))))

C17_Witness ==
    /\ pc = "done"
    /\ Len(items) = 4
    /\ Len(EntryArgs) = 2
    /\ Len(SelectSeq(items, IsErrItem)) = 1
    /\ Len(SelectSeq(items, IsInvalidItem)) = 1

\* C18: in an error-free input, a line of no bytes (terminated by "\n" or
\* "\r\n") is a valid line: it is given to on_entry as the empty text, at
\* its place among the valid lines.
C18_EmptyLineDelivered ==
    []((pc = "done" /\ NoReadError(input)) =>
          \A k \in 1..Cardinality(NLPos(input)) :
              LineContent(input, k) = << >> =>
                  LET j == Len(ValidLines(SubSeq(input, 1, KthNL(input, k)))) IN
                  /\ j <= Len(EntryArgs)
                  /\ EntryArgs[j] = << >>
                  /\ items[k] = [kind |-> "ok", bytes |-> << >>])

C18_Witness ==
    /\ pc = "done"
    /\ NoReadError(input)
    /\ Len(input) = 4
    /\ input[2] = NL /\ input[3] = NL
    /\ Len(EntryArgs) = 3
    /\ EntryArgs[1] # << >> /\ EntryArgs[2] = << >> /\ EntryArgs[3] # << >>

\* the texts ls, each followed by "\n"
RECURSIVE JoinNL(_)
JoinNL(ls) ==
    IF Len(ls) = 0 THEN << >> ELSE Head(ls) \o <<NL>> \o JoinNL(Tail(ls))
\* the terminator of line k of s: "\r\n" where a "\r" stands before the "\n"
TerminatorOf(s, k) ==
    IF KthNL(s, k) > 1 /\ s[KthNL(s, k) - 1] = CR
       /\ (k = 1 \/ KthNL(s, k - 1) < KthNL(s, k) - 1)
    THEN <<CR, NL>> ELSE <<NL>>
\* the texts ls, each followed by the terminator its line has in s
RECURSIVE JoinOwn(_, _, _)
JoinOwn(ls, s, k) ==
    IF k > Len(ls) THEN << >> ELSE ls[k] \o TerminatorOf(s, k) \o JoinOwn(ls, s, k + 1)
HasCRLF(s) == \E k \in 1..Cardinality(NLPos(s)) : TerminatorOf(s, k) = <<CR, NL>>
\* an error-free input of valid lines, the last one terminated
AllValidTerminated(s) ==
    /\ NoReadError(s) /\ AllLinesValid(s)
    /\ s # << >> /\ s[Len(s)] = NL
NoNewlineInArgs ==
    \A i \in 1..Len(trace) : \A j \in 1..Len(trace[i].arg) : trace[i].arg[j] # NL

\* C19 as stated: no on_entry argument holds a "\n", and for an all-valid
\* terminated input the delivered texts, each followed by "\n", are the
\* input again.
C19_RoundTripAsStated ==
    /\ NoNewlineInArgs
    /\ (pc = "done" /\ AllValidTerminated(input)) => JoinNL(EntryArgs) = input

\* C19 (amended): no on_entry argument holds a "\n"; for an all-valid
\* terminated input the delivered texts, each followed by the terminator of
\* its line ("\n" or "\r\n"), are the input again; followed by "\n" alone they
\* are the input again when no line ends in "\r\n".
C19_RoundTrip ==
    [](/\ NoNewlineInArgs
       /\ (pc = "done" /\ AllValidTerminated(input)) =>
             /\ JoinOwn(EntryArgs, input, 1) = input
             /\ (~HasCRLF(input) => JoinNL(EntryArgs) = input)
             /\ (HasCRLF(input) => JoinNL(EntryArgs) # input))

C19_Witness ==
    /\ pc = "done"
    /\ AllValidTerminated(input)
    /\ ~HasCRLF(input)
    /\ Len(EntryArgs) = 2
    /\ EntryArgs[1] # << >> /\ EntryArgs[2] # << >>
    /\ JoinNL(EntryArgs) = input

====
